---------------------------- MODULE Spec2Model ----------------------------
(***************************************************************************)
(* Verification model of curio-buildtracker's deployed control logic:      *)
(*   - the backlog autoscaler of BuildManager (build_manager.py),          *)
(*   - the status store, the container monitor (ECSStatusHandler) and the  *)
(*     /catalog API handler (websocket.py, stack.py),                      *)
(*   - the connection registry and the broadcaster (websocket.py).         *)
(* Each component has its own specification over the shared variables.     *)
(***************************************************************************)
EXTENDS Integers, Sequences, FiniteSets, TLC

VARIABLES
    \* ---- autoscaler (build_manager.py)
    maxCapacity,      \* max_capacity of the scalable target
    desiredCapacity,  \* desired count of the Fargate service
    sample,           \* the last evaluation's metric: <<v>> (v in thousandths) or <<>> (no samples)
    prevCapacity,     \* desiredCapacity before the last evaluation
    setOutcome,       \* how the last evaluation's set of the capacity went
    upFired,          \* the scale-up policy acted in the last evaluation
    zeroFired,        \* the scale-to-zero policy acted in the last evaluation
    evaluations,      \* number of evaluations so far (capped)
    backlog,          \* the queue's ApproximateNumberOfMessagesVisible, as the next period reports it
    \* ---- status store (StatusTable) and its change feed
    store,            \* the table: <<taskId, timestamp>> -> item
    feed,             \* the stream of the table: the change events, in order
    clock,            \* the wall clock behind utcnow(): timestamps taken so far
    \* ---- work queue (BuildQueue)
    queue,            \* the messages sent and not yet received
    \* ---- container monitor (ECSStatusHandler), per invocation slot
    monPc,            \* where the invocation stands
    monTaskId,        \* task_id
    monStatus,        \* last_status
    monMsg,           \* msg
    monTs,            \* timestamp
    monCount,         \* count
    monLast,          \* last_items of the metric query: << >> or <<item>>
    monOutcome,       \* how the slot's last finished invocation ended
    notifications,    \* notifications handled so far (capped)
    \* ---- API handler (ApiHandler), /catalog requests
    apiPc,            \* where the request stands
    apiGroups,        \* the caller's cognito:groups
    apiTaskId,        \* task_id of the submission
    apiJobType,       \* CATALOG (POST) or PURGE (DELETE)
    apiStart,         \* start_time
    apiResp,          \* the last response returned
    apiQueriedAt,     \* number of change events when the last active-job query ran
    uuids,            \* number of uuid4() values drawn
    \* ---- connection registry (ConnectionsTable) and transport gateway
    registry,         \* the table: connectionId -> ttl
    everConnected,    \* the connection ids the gateway has issued
    gonePeers,        \* the connections the gateway answers GoneException for
    now,              \* time.time(), in seconds
    connResp,         \* the last call of ConnectHandler or DisconnectHandler and its response
    \* ---- broadcaster (BroadcasterHandler), one invocation at a time
    feedPos,          \* the change events already handed to the broadcaster
    bcPc,             \* where the invocation stands
    bcBatch,          \* event['Records']
    bcConns,          \* connection_ids, in scan order
    bcI,              \* index of the record in hand
    bcJ,              \* index of the connection in hand
    bcLog,            \* the delivery attempts of the invocation, in order
    \* ---- event router (BuildManagerBus, its archive and rules)
    accepted,         \* the events the bus has accepted, in order
    archive,          \* the events in the bus's archive
    logged,           \* the events in EventLogGroup
    \* ---- collaborator failures
    failedCalls,      \* the store and queue calls that raised: <<invocation, call>>
    \* ---- API handler, GET /content
    contentResp       \* the last answer of GET /content and the caller's groups

scalerVars ==
    <<maxCapacity, desiredCapacity, sample, prevCapacity, setOutcome, upFired, zeroFired,
      evaluations, backlog>>

storeVars == <<store, feed, clock, queue>>

monVars ==
    <<monPc, monTaskId, monStatus, monMsg, monTs, monCount, monLast, monOutcome, notifications>>

apiVars ==
    <<apiPc, apiGroups, apiTaskId, apiJobType, apiStart, apiResp, apiQueriedAt, uuids>>

statusVars == <<storeVars, monVars, apiVars>>

connVars == <<registry, everConnected, gonePeers, now, connResp>>

bcVars == <<feedPos, bcPc, bcBatch, bcConns, bcI, bcJ, bcLog>>

bcastVars == <<connVars, bcVars>>

routerVars == <<accepted, archive, logged>>

faultVars == <<failedCalls>>

contentVars == <<contentResp>>

vars == <<scalerVars, statusVars, bcastVars, routerVars, faultVars, contentVars>>

\* What the steps of one component leave alone.
exceptScaler == <<statusVars, bcastVars, routerVars, faultVars, contentVars>>

exceptMon == <<scalerVars, apiVars, bcastVars, routerVars, faultVars, contentVars>>

exceptApi == <<scalerVars, monVars, bcastVars, routerVars, faultVars, contentVars>>

exceptStore == <<scalerVars, monVars, apiVars, bcastVars, routerVars, faultVars, contentVars>>

exceptConn == <<scalerVars, statusVars, bcVars, routerVars, faultVars, contentVars>>

exceptBc == <<scalerVars, statusVars, routerVars, faultVars, contentVars>>

exceptRouter == <<scalerVars, store, feed, clock, monVars, apiVars, bcastVars, faultVars, contentVars>>

-----------------------------------------------------------------------------
(* Autoscaler: BuildManager.__init__, section "5. Autoscaling"             *)

\* Metric values are averages over one minute (m1 + m3), so they are not
\* integers; they are kept in thousandths: the value 1 is 1000.
Milli == 1000

DefaultMaxCapacity == 200

\* max_capacity values the construct is instantiated with.
MaxCapacities == {1, 20, DefaultMaxCapacity}

\* Backlog values sampled by the model, around every step boundary.
IntBacklogs == {0, 1, 5, 8, 9, 10, 18, 19, 20, 48, 49, 50, 98, 99, 100, 298, 299, 300, 301}

\* Fractional averages (0.5 and 9.5).
FracSamples == {500, 9500}

\* An evaluation window without samples.
NoSample == << >>

SampleValues == {b * Milli : b \in IntBacklogs} \cup FracSamples

Value(s) == s[1]

MaxEvaluations == 3

Interval(c, hl, l, hu, u) ==
    [change |-> c, hasLower |-> hl, lower |-> l, hasUpper |-> hu, upper |-> u]

\* scaling_steps of ScaleUpPolicy.
ScaleUpSteps ==
    << Interval(1,   TRUE, 1 * Milli,   TRUE, 9 * Milli),
       Interval(2,   TRUE, 9 * Milli,   TRUE, 19 * Milli),
       Interval(5,   TRUE, 19 * Milli,  TRUE, 49 * Milli),
       Interval(10,  TRUE, 49 * Milli,  TRUE, 99 * Milli),
       Interval(50,  TRUE, 99 * Milli,  TRUE, 299 * Milli),
       Interval(200, TRUE, 299 * Milli, FALSE, 0) >>

\* scaling_steps of ScaleZeroPolicy: upper=-0.001, then lower=-0.001 upper=0.
ScaleZeroSteps ==
    << Interval(0, FALSE, 0, TRUE, -1),
       Interval(0, TRUE, -1, TRUE, 0) >>

\* The upper alarm with the threshold of the lower one.
UpperAlarmThreshold_Zero == 0 * Milli

UpperAlarmThreshold == 1 * Milli

LowerAlarmThreshold == 0

\* treat_missing_data of the two alarms.
UpperTreatMissingBreaching == FALSE

LowerTreatMissing_Ignore == FALSE

LowerTreatMissingBreaching == TRUE

\* The upper alarm (scale up and maintain): the metric is at or above the threshold.
UpperAlarm(s) ==
    IF s = NoSample THEN UpperTreatMissingBreaching ELSE Value(s) >= UpperAlarmThreshold

\* The lower alarm taking every metric below the upper alarm's threshold.
LowerAlarm_BelowUpper(s) ==
    IF s = NoSample THEN LowerTreatMissingBreaching ELSE Value(s) < UpperAlarmThreshold

\* The lower alarm (scale in to zero): the metric is at or below the threshold.
LowerAlarm(s) ==
    IF s = NoSample THEN LowerTreatMissingBreaching ELSE Value(s) <= LowerAlarmThreshold

\* A step of an upper-alarm policy holds the values lower <= v < upper.
InUpperStep(st, v) ==
    /\ st.hasLower => st.lower <= v
    /\ st.hasUpper => v < st.upper

\* A step of a lower-alarm policy holds the values lower < v <= upper.
InLowerStep(st, v) ==
    /\ st.hasLower => st.lower < v
    /\ st.hasUpper => v <= st.upper

\* The capacities the scale-up policy may assign for sample s (EXACT_CAPACITY).
ScaleUpTargets(s) ==
    {ScaleUpSteps[i].change : i \in {j \in DOMAIN ScaleUpSteps : InUpperStep(ScaleUpSteps[j], Value(s))}}

\* The capacities the scale-to-zero policy may assign: with no sample the alarm
\* is breaching and no metric value selects the step, so any step may apply.
ScaleZeroTargets(s) ==
    IF s = NoSample
    THEN {ScaleZeroSteps[i].change : i \in DOMAIN ScaleZeroSteps}
    ELSE {ScaleZeroSteps[i].change :
              i \in {j \in DOMAIN ScaleZeroSteps : InLowerStep(ScaleZeroSteps[j], Value(s))}}

Min(a, b) == IF a < b THEN a ELSE b

Max(a, b) == IF a > b THEN a ELSE b

Clamp_NoMax(c) == Max(0, c)

\* auto_scale_task_count(min_capacity=0, max_capacity=max_capacity)
Clamp(c) == Max(0, Min(maxCapacity, c))

ScalerInit ==
    /\ maxCapacity \in MaxCapacities
    /\ desiredCapacity = 0
    /\ sample = NoSample
    /\ prevCapacity = 0
    /\ setOutcome = "ok"
    /\ upFired = FALSE
    /\ zeroFired = FALSE
    /\ evaluations = 0
    /\ backlog = NoSample

\* The policies acting only when their alarm enters ALARM, not while it stays there.
FiredTargets_OnTransition(s) ==
    (IF UpperAlarm(s) /\ ~upFired THEN ScaleUpTargets(s) ELSE {})
        \cup (IF LowerAlarm(s) /\ ~zeroFired THEN ScaleZeroTargets(s) ELSE {})

\* The capacities the policies whose alarm is in ALARM assign for sample s.
FiredTargets(s) ==
    (IF UpperAlarm(s) THEN ScaleUpTargets(s) ELSE {})
        \cup (IF LowerAlarm(s) THEN ScaleZeroTargets(s) ELSE {})

\* A variant whose alarms need two periods with the same sample before a
\* policy acts (evaluation_periods = 2).
Decide_TwoPeriods(s) ==
    /\ IF FiredTargets(s) = {} \/ s # sample
       THEN desiredCapacity' = desiredCapacity
       ELSE \E t \in FiredTargets(s) : desiredCapacity' = Clamp(t)
    /\ sample' = s
    /\ prevCapacity' = desiredCapacity
    /\ setOutcome' = IF setOutcome = "failed" /\ s = sample THEN "okAfterFailed" ELSE "ok"
    /\ upFired' = UpperAlarm(s)
    /\ zeroFired' = LowerAlarm(s)

\* One evaluation period: both alarms are evaluated on the same sample, and each
\* policy whose alarm is in ALARM sets the capacity of its matching step. No
\* alarm in ALARM, or no matching step, leaves the capacity as it is.
Decide(s) ==
    /\ IF FiredTargets(s) = {}
       THEN desiredCapacity' = desiredCapacity
       ELSE \E t \in FiredTargets(s) : desiredCapacity' = Clamp(t)
    /\ sample' = s
    /\ prevCapacity' = desiredCapacity
    /\ setOutcome' = IF setOutcome = "failed" /\ s = sample THEN "okAfterFailed" ELSE "ok"
    /\ upFired' = UpperAlarm(s)
    /\ zeroFired' = LowerAlarm(s)

\* The same period when the set of the service's desired count fails: the
\* capacity stays, and nothing is tried again before the next period.
DecideSetFails(s) ==
    /\ FiredTargets(s) # {}
    /\ desiredCapacity' = desiredCapacity
    /\ sample' = s
    /\ prevCapacity' = desiredCapacity
    /\ setOutcome' = "failed"
    /\ upFired' = UpperAlarm(s)
    /\ zeroFired' = LowerAlarm(s)

\* One evaluation period on the sample s, counted.
Evaluate(s) ==
    /\ evaluations < MaxEvaluations
    /\ Decide(s)
    /\ evaluations' = evaluations + 1
    /\ UNCHANGED <<maxCapacity, backlog, exceptScaler>>

\* One evaluation period in which a policy acts and the set of the service's
\* desired count fails.
EvaluateSetFails(s) ==
    /\ evaluations < MaxEvaluations
    /\ DecideSetFails(s)
    /\ evaluations' = evaluations + 1
    /\ UNCHANGED <<maxCapacity, backlog, exceptScaler>>

\* The queue's depth changes: messages are sent to it or received from it, or
\* the metric stops being reported (NoSample).
BacklogChanges(s) ==
    /\ s # backlog
    /\ backlog' = s
    /\ UNCHANGED <<maxCapacity, desiredCapacity, sample, prevCapacity, setOutcome,
                   upFired, zeroFired, evaluations, exceptScaler>>

\* The periodic evaluation of the alarms on the queue's current depth; the
\* periods go on for ever, so they are not counted.
EvaluateBacklog ==
    /\ Decide(backlog)
    /\ UNCHANGED <<maxCapacity, backlog, evaluations, exceptScaler>>

EvaluateBacklogSetFails ==
    /\ DecideSetFails(backlog)
    /\ UNCHANGED <<maxCapacity, backlog, evaluations, exceptScaler>>

Inputs == {<<v>> : v \in SampleValues} \cup {NoSample}

-----------------------------------------------------------------------------
(* Status store: StatusTable of WebSocketConstruct, with its stream        *)

\* Every current record has the sort key (attribute "timestamp") STATUS.
Key(taskId) == <<taskId, "STATUS">>

\* item.get(field, default)
Get(item, field, default) == IF field \in DOMAIN item THEN item[field] ELSE default

\* table.put_item(Item=item): the item replaces the one with the same key; the
\* stream (NEW_IMAGE) gets an INSERT or a MODIFY event, and none when the item
\* written equals the item stored.
PutItem(item) ==
    LET k == <<item.taskId, item.timestamp>> IN
    /\ store' = [x \in DOMAIN store \cup {k} |-> IF x = k THEN item ELSE store[x]]
    /\ feed' = IF k \in DOMAIN store /\ store[k] = item
               THEN feed
               ELSE Append(feed, [eventName |-> IF k \in DOMAIN store THEN "MODIFY" ELSE "INSERT",
                                  newImage |-> item])

\* The items of StateIndex with state = st (the index holds every item that has
\* the attributes state and updatedAt).
StateIndex(st) ==
    {k \in DOMAIN store :
        /\ "state" \in DOMAIN store[k] /\ "updatedAt" \in DOMAIN store[k]
        /\ store[k].state = st}

\* The notifications the container monitor handles and the jobs submitted.
MaxNotifications == 2

MaxJobs == 1

-----------------------------------------------------------------------------
(* Container monitor: ECSStatusHandler.handler                             *)

TaskIdSuffixLen == 12

MetricId == <<"system-active-containers">>

\* taskArn values: a trailing segment shorter than 12 characters, and one of 13.
ArnShort == <<"t", "/", "a", "1">>

ArnLong == <<"t", "/", "z", "0", "1", "2", "3", "4", "5", "6", "7", "8", "9", "a", "b">>

NoArn == << >>

TaskArns == {ArnShort, ArnLong, NoArn}

Statuses == {"PENDING", "RUNNING", "STOPPED"}

EcsGroups == {"", "service:Service"}

\* stoppedReason: absent, or a text.
NoReason == << >>

Reasons == {NoReason, <<"oom">>}

\* task_arn.split('/')[-1]
LastSegment(arn) ==
    LET slashes == {i \in DOMAIN arn : arn[i] = "/"} IN
    IF slashes = {} THEN arn
    ELSE LET last == CHOOSE i \in slashes : \A j \in slashes : j <= i
         IN SubSeq(arn, last + 1, Len(arn))

\* seq[:n], the first characters.
LastChars_First(sq, n) == IF Len(sq) <= n THEN sq ELSE SubSeq(sq, 1, n)

\* seq[-n:]
LastChars(sq, n) == IF Len(sq) <= n THEN sq ELSE SubSeq(sq, Len(sq) - n + 1, Len(sq))

\* The key without the prefix.
ContainerTaskId_NoPrefix(arn) == LastChars(LastSegment(arn), TaskIdSuffixLen)

\* task_id = f"container-{task_id_suffix}"
ContainerTaskId(arn) == <<"container-">> \o LastChars(LastSegment(arn), TaskIdSuffixLen)

\* if stopped_reason:
Truthy(reason) == reason # NoReason /\ reason[1] # ""

\* msg = f"Container {last_status}", then ": {stopped_reason}"
ContainerMsg(lastStatus, reason) ==
    <<"Container ", lastStatus>> \o (IF Truthy(reason) THEN <<": ", reason[1]>> ELSE << >>)

MonProcs == {1, 2}

\* latest_item with the time of the write as its sort key.
ContainerItem_TimestampKey(p) ==
    [taskId |-> monTaskId[p], timestamp |-> ToString(monTs[p]), updatedAt |-> monTs[p],
     state |-> monStatus[p], jobType |-> "CONTAINER", level |-> "INFO",
     message |-> monMsg[p]]

\* latest_item
ContainerItem(p) ==
    [taskId |-> monTaskId[p], timestamp |-> "STATUS", updatedAt |-> monTs[p],
     state |-> monStatus[p], jobType |-> "CONTAINER", level |-> "INFO",
     message |-> monMsg[p]]

\* The item of the metric put_item.
MetricItem(p) ==
    [taskId |-> MetricId, timestamp |-> "STATUS", updatedAt |-> monTs[p],
     state |-> "RUNNING", jobType |-> "METRIC", level |-> "INFO",
     message |-> <<"Active Containers: ", ToString(monCount[p])>>,
     processed |-> monCount[p], total |-> monCount[p]]

MonInit ==
    /\ monPc = [p \in MonProcs |-> "idle"]
    /\ monTaskId = [p \in MonProcs |-> << >>]
    /\ monStatus = [p \in MonProcs |-> ""]
    /\ monMsg = [p \in MonProcs |-> << >>]
    /\ monTs = [p \in MonProcs |-> 0]
    /\ monCount = [p \in MonProcs |-> 0]
    /\ monLast = [p \in MonProcs |-> << >>]
    /\ monOutcome = [p \in MonProcs |-> "none"]
    /\ notifications = 0

MonFinish(p, outcome) ==
    /\ monPc' = [monPc EXCEPT ![p] = "idle"]
    /\ monOutcome' = [monOutcome EXCEPT ![p] = outcome]

\* A notification without taskArn or without group: the handler returns at once.
MonIgnore(p, arn, group) ==
    /\ monPc[p] = "idle"
    /\ arn = NoArn \/ group = ""
    /\ MonFinish(p, "ignored")
    /\ UNCHANGED <<storeVars, monTaskId, monStatus, monMsg, monTs, monCount, monLast, notifications, exceptMon>>

\* A notification of one of the service's tasks: task_id, timestamp and msg.
MonReceive(p, arn, lastStatus, group, reason) ==
    /\ monPc[p] = "idle"
    /\ arn # NoArn /\ group # ""
    /\ notifications < MaxNotifications
    /\ notifications' = notifications + 1
    /\ clock' = clock + 1
    /\ monTaskId' = [monTaskId EXCEPT ![p] = ContainerTaskId(arn)]
    /\ monStatus' = [monStatus EXCEPT ![p] = lastStatus]
    /\ monMsg' = [monMsg EXCEPT ![p] = ContainerMsg(lastStatus, reason)]
    /\ monTs' = [monTs EXCEPT ![p] = clock + 1]
    /\ monPc' = [monPc EXCEPT ![p] = "get"]
    /\ UNCHANGED <<store, feed, queue, monCount, monLast, monOutcome, exceptMon>>

IsDuplicate_WrongAttribute(p) ==
    /\ Key(monTaskId[p]) \in DOMAIN store
    /\ Get(store[Key(monTaskId[p])], "status", "") = monStatus[p]
    /\ Get(store[Key(monTaskId[p])], "message", << >>) = monMsg[p]

\* The duplicate test on the state alone.
IsDuplicate_StateOnly(p) ==
    /\ Key(monTaskId[p]) \in DOMAIN store
    /\ Get(store[Key(monTaskId[p])], "state", "") = monStatus[p]

\* The duplicate test of the stored current item.
IsDuplicate(p) ==
    /\ Key(monTaskId[p]) \in DOMAIN store
    /\ Get(store[Key(monTaskId[p])], "state", "") = monStatus[p]
    /\ Get(store[Key(monTaskId[p])], "message", << >>) = monMsg[p]

\* get_item of the current item: the same state and message end the invocation.
MonGetDuplicate(p) ==
    /\ monPc[p] = "get"
    /\ IsDuplicate(p)
    /\ MonFinish(p, "duplicate")
    /\ UNCHANGED <<storeVars, monTaskId, monStatus, monMsg, monTs, monCount, monLast, notifications, exceptMon>>

\* get_item of the current item: none, or another state or message.
MonGetChanged(p) ==
    /\ monPc[p] = "get"
    /\ ~IsDuplicate(p)
    /\ monPc' = [monPc EXCEPT ![p] = "put"]
    /\ UNCHANGED <<storeVars, monTaskId, monStatus, monMsg, monTs, monCount, monLast, monOutcome, notifications, exceptMon>>

\* put_item of latest_item.
MonPut(p) ==
    /\ monPc[p] = "put"
    /\ PutItem(ContainerItem(p))
    /\ monPc' = [monPc EXCEPT ![p] = "count"]
    /\ UNCHANGED <<clock, queue, monTaskId, monStatus, monMsg, monTs, monCount, monLast, monOutcome, notifications, exceptMon>>

\* The COUNT query of StateIndex: state RUNNING, filtered to jobType CONTAINER.
ActiveContainers ==
    Cardinality({k \in StateIndex("RUNNING") : Get(store[k], "jobType", "") = "CONTAINER"})

MonCount(p) ==
    /\ monPc[p] = "count"
    /\ monCount' = [monCount EXCEPT ![p] = ActiveContainers]
    /\ monPc' = [monPc EXCEPT ![p] = "last"]
    /\ UNCHANGED <<storeVars, monTaskId, monStatus, monMsg, monTs, monLast, monOutcome, notifications, exceptMon>>

\* The query for the newest item of taskId system-active-containers (Limit=1,
\* ScanIndexForward=False): only the sort key STATUS is ever written.
LastMetricItems ==
    IF Key(MetricId) \in DOMAIN store THEN <<store[Key(MetricId)]>> ELSE << >>

ShouldUpdate_Always(lastItems, count) == TRUE

\* should_update
ShouldUpdate(lastItems, count) ==
    ~(lastItems # << >> /\ Get(lastItems[1], "processed", -1) = count)

\* The previous metric holds the same count: nothing is written.
MonMetricUnchanged(p) ==
    /\ monPc[p] = "last"
    /\ ~ShouldUpdate(LastMetricItems, monCount[p])
    /\ monLast' = [monLast EXCEPT ![p] = LastMetricItems]
    /\ MonFinish(p, "metricUnchanged")
    /\ UNCHANGED <<storeVars, monTaskId, monStatus, monMsg, monTs, monCount, notifications, exceptMon>>

\* No previous metric, or another count: the metric is to be written.
MonMetricChanged(p) ==
    /\ monPc[p] = "last"
    /\ ShouldUpdate(LastMetricItems, monCount[p])
    /\ monLast' = [monLast EXCEPT ![p] = LastMetricItems]
    /\ monPc' = [monPc EXCEPT ![p] = "putMetric"]
    /\ UNCHANGED <<storeVars, monTaskId, monStatus, monMsg, monTs, monCount, monOutcome, notifications, exceptMon>>

\* put_item of the metric item.
MonPutMetric(p) ==
    /\ monPc[p] = "putMetric"
    /\ PutItem(MetricItem(p))
    /\ MonFinish(p, "metricWritten")
    /\ UNCHANGED <<clock, queue, monTaskId, monStatus, monMsg, monTs, monCount, monLast, notifications, exceptMon>>

\* What a step of the monitor with a failing store call leaves alone.
exceptMonFault == <<scalerVars, apiVars, bcastVars, routerVars, contentVars>>

\* The call of the invocation in slot p raises and its except branch prints it.
MonCallFails(p, call) == failedCalls' = failedCalls \cup {<<monTs[p], call>>}

\* get_item raises: "Failed to check duplicates", and the handler goes on to
\* the put_item.
MonGetFails(p) ==
    /\ monPc[p] = "get"
    /\ MonCallFails(p, "get")
    /\ monPc' = [monPc EXCEPT ![p] = "put"]
    /\ UNCHANGED <<storeVars, monTaskId, monStatus, monMsg, monTs, monCount, monLast, monOutcome, notifications, exceptMonFault>>

\* The failed put_item tried again in place.
MonPutFails_Retry(p) ==
    /\ monPc[p] = "put"
    /\ <<monTs[p], "put">> \notin failedCalls
    /\ MonCallFails(p, "put")
    /\ UNCHANGED <<storeVars, monVars, exceptMonFault>>

\* put_item of latest_item raises: "Failed to put latest item", and the
\* handler goes on to the aggregation.
MonPutFails(p) ==
    /\ monPc[p] = "put"
    /\ MonCallFails(p, "put")
    /\ monPc' = [monPc EXCEPT ![p] = "count"]
    /\ UNCHANGED <<storeVars, monTaskId, monStatus, monMsg, monTs, monCount, monLast, monOutcome, notifications, exceptMonFault>>

\* The COUNT query raises: the outer except prints "Failed to aggregate" and
\* the handler ends.
MonCountFails(p) ==
    /\ monPc[p] = "count"
    /\ MonCallFails(p, "count")
    /\ MonFinish(p, "aggregateFailed")
    /\ UNCHANGED <<storeVars, monTaskId, monStatus, monMsg, monTs, monCount, monLast, notifications, exceptMonFault>>

\* The query of the previous metric raises: "Failed to check last metric",
\* should_update stays True.
MonLastFails(p) ==
    /\ monPc[p] = "last"
    /\ MonCallFails(p, "last")
    /\ monLast' = [monLast EXCEPT ![p] = << >>]
    /\ monPc' = [monPc EXCEPT ![p] = "putMetric"]
    /\ UNCHANGED <<storeVars, monTaskId, monStatus, monMsg, monTs, monCount, monOutcome, notifications, exceptMonFault>>

\* The put_item of the metric raises: the outer except prints it and the
\* handler ends.
MonPutMetricFails(p) ==
    /\ monPc[p] = "putMetric"
    /\ MonCallFails(p, "putMetric")
    /\ MonFinish(p, "aggregateFailed")
    /\ UNCHANGED <<storeVars, monTaskId, monStatus, monMsg, monTs, monCount, monLast, notifications, exceptMonFault>>

MonFaultStep(p) ==
    \/ MonGetFails(p)
    \/ MonPutFails(p)
    \/ MonCountFails(p)
    \/ MonLastFails(p)
    \/ MonPutMetricFails(p)

\* One step of the invocation in slot p, for notifications drawn from the
\* given taskArn, lastStatus, group and stoppedReason values.
MonStepOf(p, arns, statuses, groups, reasons) ==
    \/ \E arn \in arns, group \in groups : MonIgnore(p, arn, group)
    \/ \E arn \in arns, st \in statuses, group \in groups, r \in reasons :
           MonReceive(p, arn, st, group, r)
    \/ MonGetDuplicate(p)
    \/ MonGetChanged(p)
    \/ MonPut(p)
    \/ MonCount(p)
    \/ MonMetricUnchanged(p)
    \/ MonMetricChanged(p)
    \/ MonPutMetric(p)

MonStep(p) == MonStepOf(p, TaskArns, Statuses, EcsGroups, Reasons)

-----------------------------------------------------------------------------
(* API handler: ApiHandler.handler, path /catalog                          *)

\* The cognito:groups values of the callers.
GroupSets == {{}, {"operator"}, {"admin", "monitor"}}

\* A check in which admin passes for every method.
RequiredGroup_AdminForPost(method) ==
    CASE method = "POST" -> "admin"
      [] method = "DELETE" -> "admin"
      [] method = "GET" -> "monitor"

\* POST requires 'operator', DELETE requires 'admin', GET requires 'monitor'.
RequiredGroup(method) ==
    CASE method = "POST" -> "operator"
      [] method = "DELETE" -> "admin"
      [] method = "GET" -> "monitor"

Response(code, status, taskId) == [statusCode |-> code, status |-> status, taskId |-> taskId]

NoTask == << >>

ApiStatusTableActions_ReadWrite ==
    {"dynamodb:BatchGetItem", "dynamodb:GetItem", "dynamodb:Query", "dynamodb:Scan",
     "dynamodb:BatchWriteItem", "dynamodb:PutItem", "dynamodb:UpdateItem",
     "dynamodb:DeleteItem", "dynamodb:DescribeTable"}

\* websocket.status_table.grant_write_data(api_handler): the actions the
\* handler's role is allowed on the status table and its indexes.
ApiStatusTableActions ==
    {"dynamodb:BatchWriteItem", "dynamodb:PutItem", "dynamodb:UpdateItem",
     "dynamodb:DeleteItem", "dynamodb:DescribeTable"}

\* The paths and methods the AUTH CHECK looks at.
AuthChecked(path, method) == path = "/catalog" /\ method \in {"POST", "DELETE", "GET"}

NoContent == << >>

ContentResponse(code, content, groups) == [statusCode |-> code, content |-> content, groups |-> groups]

\* EXTERNAL_INPUTS_CONFIG: the names of the external inputs that have a bucket.
InputNames == {"in"}

\* The catalog table and the objects of the input's bucket: item id -> content.
NoId == << >>

CatalogContent == [x \in {<<"external", "in", "a">>} |-> <<"text of a">>]

\* The values of the query parameter id.
ItemIds == {NoId, <<"external", "in", "a">>, <<"external", "in", "b">>, <<"external", "out", "a">>, <<"local", "in", "a">>}

ApiInit ==
    /\ apiPc = "idle"
    /\ apiGroups = {}
    /\ apiTaskId = NoTask
    /\ apiJobType = ""
    /\ apiStart = 0
    /\ apiResp = Response(0, "", NoTask)
    /\ apiQueriedAt = 0
    /\ uuids = 0
    /\ contentResp = ContentResponse(0, NoContent, {})

\* AUTH CHECK for Catalog: the caller lacks the group of the method.
ApiForbidden(method, groups) ==
    /\ apiPc = "idle"
    /\ RequiredGroup(method) \notin groups
    /\ apiGroups' = groups
    /\ apiResp' = Response(403, "Forbidden", NoTask)
    /\ UNCHANGED <<storeVars, apiPc, apiTaskId, apiJobType, apiStart, uuids, apiQueriedAt, exceptApi>>

\* POST /catalog and DELETE /catalog: task_id and start_time.
ApiSubmit(method, groups) ==
    /\ apiPc = "idle"
    /\ method \in {"POST", "DELETE"}
    /\ RequiredGroup(method) \in groups
    /\ uuids < MaxJobs
    /\ clock' = clock + 1
    /\ uuids' = uuids + 1
    /\ apiGroups' = groups
    /\ apiTaskId' = <<IF method = "POST" THEN "catalog-" ELSE "purge-", ToString(uuids + 1)>>
    /\ apiJobType' = IF method = "POST" THEN "CATALOG" ELSE "PURGE"
    /\ apiStart' = clock + 1
    /\ apiPc' = "put"
    /\ UNCHANGED <<store, feed, queue, apiResp, apiQueriedAt, exceptApi>>

\* The QUEUED item of the submission.
QueuedItem ==
    [taskId |-> apiTaskId, timestamp |-> "STATUS", state |-> "QUEUED",
     jobType |-> apiJobType, level |-> "INFO",
     message |-> IF apiJobType = "CATALOG" THEN <<"Catalog Job Queued...">> ELSE <<"Purge queued...">>,
     processed |-> 0, total |-> 0, startedAt |-> apiStart, updatedAt |-> apiStart]

ApiPutQueued_NoStatusTable ==
    /\ apiPc = "put"
    /\ apiPc' = "send"
    /\ UNCHANGED <<storeVars, apiGroups, apiTaskId, apiJobType, apiStart, apiResp, apiQueriedAt, uuids, exceptApi>>

\* status_table.put_item of the QUEUED item.
ApiPutQueued ==
    /\ apiPc = "put"
    /\ PutItem(QueuedItem)
    /\ apiPc' = "send"
    /\ UNCHANGED <<clock, queue, apiGroups, apiTaskId, apiJobType, apiStart, apiResp, uuids, apiQueriedAt, exceptApi>>

\* MessageBody of sqs.send_message.
JobMessage ==
    [source |-> "curio.api",
     detailType |-> IF apiJobType = "CATALOG" THEN "CatalogInputFiles" ELSE "PurgeInputFiles",
     task_id |-> apiTaskId, job_type |-> apiJobType, started_at |-> apiStart]

\* sqs.send_message, then the 200 response.
ApiSendMessage ==
    /\ apiPc = "send"
    /\ queue' = queue \cup {JobMessage}
    /\ apiResp' = Response(200, "started", apiTaskId)
    /\ apiPc' = "idle"
    /\ UNCHANGED <<store, feed, clock, apiGroups, apiTaskId, apiJobType, apiStart, uuids, apiQueriedAt, exceptApi>>

\* What a step of the API handler with a failing call leaves alone.
exceptApiFault == <<scalerVars, monVars, bcastVars, routerVars, contentVars>>

\* A call of the submission raises: the except branch prints it and answers 500.
ApiCallFails(call) ==
    /\ failedCalls' = failedCalls \cup {<<apiStart, call>>}
    /\ apiResp' = Response(500, "error", NoTask)
    /\ apiPc' = "idle"

\* status_table.put_item raises.
ApiPutFails ==
    /\ apiPc = "put"
    /\ ApiCallFails("putQueued")
    /\ UNCHANGED <<storeVars, apiGroups, apiTaskId, apiJobType, apiStart, uuids, apiQueriedAt, exceptApiFault>>

\* sqs.send_message raises, after the put_item of the QUEUED item.
ApiSendFails ==
    /\ apiPc = "send"
    /\ ApiCallFails("send")
    /\ UNCHANGED <<storeVars, apiGroups, apiTaskId, apiJobType, apiStart, uuids, apiQueriedAt, exceptApiFault>>

ApiFaultStep == ApiPutFails \/ ApiSendFails

\* GET /catalog by a caller of the monitor group.
ApiGetCatalog(groups) ==
    /\ apiPc = "idle"
    /\ RequiredGroup("GET") \in groups
    /\ apiGroups' = groups
    /\ apiPc' = "query"
    /\ UNCHANGED <<storeVars, apiTaskId, apiJobType, apiStart, apiResp, uuids, apiQueriedAt, exceptApi>>

\* The items of the query of StateIndex for state RUNNING with Limit=1,
\* ScanIndexForward=False and the filter jobType <> CONTAINER: the one newest
\* item by updatedAt is read (any of them when several share it), and the filter
\* applies to what was read.
ActiveJobItems ==
    LET running == StateIndex("RUNNING")
        newest == {k \in running : \A j \in running : store[j].updatedAt <= store[k].updatedAt}
    IN IF running = {} THEN {<< >>}
       ELSE {IF Get(store[k], "jobType", "") # "CONTAINER" THEN <<store[k]>> ELSE << >> : k \in newest}

\* The values of resp.get('Items') the handler can see; a query the role is
\* not allowed raises, which leaves running_job None.
RunningJobItems ==
    IF "dynamodb:Query" \in ApiStatusTableActions THEN ActiveJobItems ELSE {<< >>}

\* 1. Check for Active Jobs, then the RUNNING or the IDLE response.
ApiQueryActive ==
    /\ apiPc = "query"
    /\ \E items \in RunningJobItems :
           apiResp' = IF items # << >>
                      THEN Response(200, "RUNNING", items[1].taskId)
                      ELSE Response(200, "IDLE", NoTask)
    /\ apiQueriedAt' = Len(feed)
    /\ apiPc' = "idle"
    /\ UNCHANGED <<storeVars, apiGroups, apiTaskId, apiJobType, apiStart, uuids, exceptApi>>

\* The answer of GET /content for the item id.
ContentAnswer(itemId, groups) ==
    IF itemId = NoId THEN ContentResponse(400, NoContent, groups)
    ELSE IF ~(Len(itemId) > 1 /\ itemId[1] = "external" /\ itemId[2] \in InputNames)
         THEN ContentResponse(404, NoContent, groups)
    ELSE IF itemId \notin DOMAIN CatalogContent THEN ContentResponse(404, NoContent, groups)
    ELSE ContentResponse(200, CatalogContent[itemId], groups)

\* GET /content: the AUTH CHECK is passed over for this path, then the item
\* is looked up and its object read.
ApiGetContent(groups, itemId) ==
    /\ apiPc = "idle"
    /\ ~(AuthChecked("/content", "GET") /\ RequiredGroup("GET") \notin groups)
    /\ contentResp' = ContentAnswer(itemId, groups)
    /\ UNCHANGED <<scalerVars, statusVars, bcastVars, routerVars, faultVars>>

ContentStep == \E groups \in GroupSets, itemId \in ItemIds : ApiGetContent(groups, itemId)

\* One step of a /catalog request of a caller whose groups are in groupSets.
ApiStepOf(groupSets) ==
    \/ \E method \in {"POST", "DELETE", "GET"}, groups \in groupSets : ApiForbidden(method, groups)
    \/ \E method \in {"POST", "DELETE"}, groups \in groupSets : ApiSubmit(method, groups)
    \/ ApiPutQueued
    \/ ApiSendMessage
    \/ \E groups \in groupSets : ApiGetCatalog(groups)
    \/ ApiQueryActive

ApiStep == ApiStepOf(GroupSets)

\* The steps of the requests that pass the group check.
ApiAllowedStep ==
    \/ \E method \in {"POST", "DELETE"} : ApiSubmit(method, {"operator", "admin", "monitor"})
    \/ ApiPutQueued
    \/ ApiSendMessage
    \/ ApiGetCatalog({"operator", "admin", "monitor"})
    \/ ApiQueryActive

-----------------------------------------------------------------------------
(* Worker (crates/curio-processor): takes a job message and moves the job's *)
(* current record to RUNNING and then to a terminal state.                 *)

JobTypes == {"CATALOG", "PURGE"}

WorkerItem(old, st) == [old EXCEPT !.state = st, !.updatedAt = clock + 1]

WorkerStart(m) ==
    /\ m \in queue
    /\ Key(m.task_id) \in DOMAIN store
    /\ clock' = clock + 1
    /\ queue' = queue \ {m}
    /\ PutItem(WorkerItem(store[Key(m.task_id)], "RUNNING"))
    /\ UNCHANGED exceptStore

WorkerFinish(k, st) ==
    /\ k \in DOMAIN store
    /\ store[k].jobType \in JobTypes
    /\ store[k].state = "RUNNING"
    /\ clock' = clock + 1
    /\ PutItem(WorkerItem(store[k], st))
    /\ UNCHANGED <<queue, exceptStore>>

WorkerStep ==
    \/ \E m \in queue : WorkerStart(m)
    \/ \E k \in DOMAIN store, st \in {"DONE", "FAILED"} : WorkerFinish(k, st)

-----------------------------------------------------------------------------
(* Connection registry: ConnectHandler, DisconnectHandler, the table's TTL *)

Conns == {"c1", "c2"}

\* TTL of 2 hours
TtlSeconds == 2 * 60 * 60

MaxTicks == 1

\* The time that passes in one step of the clock: just over the TTL.
TickSeconds == TtlSeconds + 1

ConnInit ==
    /\ registry = << >>
    /\ everConnected = {}
    /\ gonePeers = {}
    /\ now = 0
    /\ connResp = [op |-> "none", conn |-> "", statusCode |-> 0, call |-> 0,
                   batchEnd |-> 0, attempts |-> 0]

\* delete_item on a table: the table without the item of key c.
DeleteItem(table, c) == [x \in DOMAIN table \ {c} |-> table[x]]

\* table.delete_item(Key={'connectionId': c}): deleting an absent item is no error.
DeleteConnection(c) == DeleteItem(registry, c)

\* The response of a handler call; call alternates between 0 and 1 so that
\* two calls in a row are told apart. For a call made while an invocation of
\* the broadcaster is in flight, batchEnd names the invocation (the place of its
\* batch in the stream) and attempts the delivery attempts it had made.
ConnResponse(op, c, statusCode) ==
    [op |-> op, conn |-> c, statusCode |-> statusCode, call |-> 1 - connResp.call,
     batchEnd |-> IF bcPc = "post" THEN feedPos ELSE 0,
     attempts |-> IF bcPc = "post" THEN Len(bcLog) ELSE 0]

\* $connect of a connection id newly issued by the gateway.
OnConnect(c) ==
    /\ c \notin everConnected
    /\ everConnected' = everConnected \cup {c}
    /\ registry' = [x \in DOMAIN registry \cup {c} |->
                        IF x = c THEN now + TtlSeconds ELSE registry[x]]
    /\ connResp' = ConnResponse("connect", c, 200)
    /\ UNCHANGED <<gonePeers, now, exceptConn>>

\* $disconnect with a delete_item that asks for the item to exist.
OnDisconnect_MustExist(c) ==
    /\ c \in everConnected
    /\ registry' = DeleteConnection(c)
    /\ connResp' = ConnResponse("disconnect", c, IF c \in DOMAIN registry THEN 200 ELSE 500)
    /\ UNCHANGED <<everConnected, gonePeers, now, exceptConn>>

\* $disconnect, for a connection registered or not.
OnDisconnect(c) ==
    /\ c \in everConnected
    /\ registry' = DeleteConnection(c)
    /\ connResp' = ConnResponse("disconnect", c, 200)
    /\ UNCHANGED <<everConnected, gonePeers, now, exceptConn>>

\* The peer of a connection goes away: the gateway answers Gone from now on.
PeerGone(c) ==
    /\ c \in everConnected
    /\ c \notin gonePeers
    /\ gonePeers' = gonePeers \cup {c}
    /\ UNCHANGED <<registry, everConnected, now, connResp, exceptConn>>

\* Time passes.
Tick ==
    /\ now < MaxTicks * TickSeconds
    /\ now' = now + TickSeconds
    /\ UNCHANGED <<registry, everConnected, gonePeers, connResp, exceptConn>>

\* time_to_live_attribute="ttl": the table drops an item whose ttl has passed.
Expire(c) ==
    /\ c \in DOMAIN registry
    /\ registry[c] < now
    /\ registry' = DeleteConnection(c)
    /\ UNCHANGED <<everConnected, gonePeers, now, connResp, exceptConn>>

ConnStep ==
    \/ \E c \in Conns : OnConnect(c)
    \/ \E c \in Conns : OnDisconnect(c)
    \/ \E c \in Conns : PeerGone(c)
    \/ Tick
    \/ \E c \in Conns : Expire(c)

-----------------------------------------------------------------------------
(* Broadcaster: BroadcasterHandler.handler, fed by the stream of StatusTable *)

\* The records one invocation gets at most.
MaxBatch == 2

\* new_image.get(field, {}).get('N'): a number comes as text, a missing one as None.
NumberText(item, field) == IF field \in DOMAIN item THEN ToString(item[field]) ELSE "None"

\* msg
BroadcastMsg(newImage) ==
    [taskId |-> Get(newImage, "taskId", "None"),
     timestamp |-> Get(newImage, "updatedAt", "None"),
     state |-> Get(newImage, "state", "None"),
     jobType |-> Get(newImage, "jobType", "None"),
     startedAt |-> Get(newImage, "startedAt", "None"),
     message |-> Get(newImage, "message", "None"),
     level |-> Get(newImage, "level", "None"),
     processed |-> NumberText(newImage, "processed"),
     total |-> NumberText(newImage, "total"),
     details |-> Get(newImage, "details", "None")]

\* The orders in which a scan can return the items of a set.
ScanOrders(S) ==
    {sq \in [1..Cardinality(S) -> S] : \A a, b \in 1..Cardinality(S) : sq[a] = sq[b] => a = b}

BcInit ==
    /\ feedPos = 0
    /\ bcPc = "idle"
    /\ bcBatch = << >>
    /\ bcConns = << >>
    /\ bcI = 0
    /\ bcJ = 0
    /\ bcLog = << >>

\* if record['eventName'] in ['INSERT', 'MODIFY']
IsBroadcast(record) == record.eventName \in {"INSERT", "MODIFY"}

\* The first record at or after index i that is broadcast, or Len(batch) + 1.
NextBroadcastRecord(batch, i) ==
    LET rest == {k \in i..Len(batch) : IsBroadcast(batch[k])} IN
    IF rest = {} THEN Len(batch) + 1 ELSE CHOOSE k \in rest : \A m \in rest : k <= m

\* The invocation with the next n change events of the stream: the registry is
\* scanned once; with no connection the handler returns.
BcInvoke(n) ==
    /\ bcPc \in {"idle", "done"}
    /\ n \in 1..MaxBatch
    /\ feedPos + n <= Len(feed)
    /\ feedPos' = feedPos + n
    /\ bcBatch' = SubSeq(feed, feedPos + 1, feedPos + n)
    /\ bcLog' = << >>
    /\ \E order \in ScanOrders(DOMAIN registry) :
        /\ bcConns' = order
        /\ LET first == NextBroadcastRecord(bcBatch', 1) IN
           IF order = << >> \/ first > n
           THEN bcPc' = "done" /\ bcI' = 0 /\ bcJ' = 0
           ELSE bcPc' = "post" /\ bcI' = first /\ bcJ' = 1
    /\ UNCHANGED <<connVars, exceptBc>>

\* The loops leaving the record in hand after the first connection.
BcAdvance_FirstConnectionOnly ==
    LET next == NextBroadcastRecord(bcBatch, bcI + 1) IN
    IF next > Len(bcBatch)
    THEN bcPc' = "done" /\ UNCHANGED <<bcI, bcJ>>
    ELSE bcI' = next /\ bcJ' = 1 /\ UNCHANGED bcPc

\* After the attempt for connection bcJ: the next connection, the next record
\* that is broadcast, or the end of the handler.
BcAdvance ==
    IF bcJ < Len(bcConns)
    THEN bcJ' = bcJ + 1 /\ UNCHANGED <<bcI, bcPc>>
    ELSE LET next == NextBroadcastRecord(bcBatch, bcI + 1) IN
         IF next > Len(bcBatch)
         THEN bcPc' = "done" /\ UNCHANGED <<bcI, bcJ>>
         ELSE bcI' = next /\ bcJ' = 1 /\ UNCHANGED bcPc

Attempt(result) ==
    [record |-> bcI, conn |-> bcConns[bcJ], result |-> result,
     payload |-> BroadcastMsg(bcBatch[bcI].newImage)]

\* A successful send that renews the connection's item.
BcPostOk_Touch ==
    /\ bcPc = "post"
    /\ bcConns[bcJ] \notin gonePeers
    /\ bcLog' = Append(bcLog, Attempt("ok"))
    /\ registry' = [x \in DOMAIN registry \cup {bcConns[bcJ]} |->
                        IF x = bcConns[bcJ] THEN now + TtlSeconds ELSE registry[x]]
    /\ BcAdvance
    /\ UNCHANGED <<feedPos, bcBatch, bcConns, everConnected, gonePeers, now, connResp, exceptBc>>

\* post_to_connection succeeds.
BcPostOk ==
    /\ bcPc = "post"
    /\ bcConns[bcJ] \notin gonePeers
    /\ bcLog' = Append(bcLog, Attempt("ok"))
    /\ BcAdvance
    /\ UNCHANGED <<feedPos, bcBatch, bcConns, connVars, exceptBc>>

\* The Gone branch without the delete_item call.
BcPostGone_NoDelete ==
    /\ bcPc = "post"
    /\ bcConns[bcJ] \in gonePeers
    /\ bcLog' = Append(bcLog, Attempt("gone"))
    /\ BcAdvance
    /\ UNCHANGED <<feedPos, bcBatch, bcConns, connVars, exceptBc>>

\* post_to_connection raises GoneException: the connection's item is deleted.
BcPostGone ==
    /\ bcPc = "post"
    /\ bcConns[bcJ] \in gonePeers
    /\ bcLog' = Append(bcLog, Attempt("gone"))
    /\ registry' = DeleteConnection(bcConns[bcJ])
    /\ BcAdvance
    /\ UNCHANGED <<feedPos, bcBatch, bcConns, everConnected, gonePeers, now, connResp, exceptBc>>

\* Every exception of the send treated as Gone: the item is deleted.
BcPostError_Delete ==
    /\ bcPc = "post"
    /\ bcConns[bcJ] \notin gonePeers
    /\ bcLog' = Append(bcLog, Attempt("error"))
    /\ registry' = DeleteConnection(bcConns[bcJ])
    /\ BcAdvance
    /\ UNCHANGED <<feedPos, bcBatch, bcConns, everConnected, gonePeers, now, connResp, exceptBc>>

\* The failed send tried again: the connection in hand stays in hand.
BcPostError_Retry ==
    /\ bcPc = "post"
    /\ bcConns[bcJ] \notin gonePeers
    /\ bcLog' = Append(bcLog, Attempt("error"))
    /\ UNCHANGED <<bcPc, bcI, bcJ, feedPos, bcBatch, bcConns, connVars, exceptBc>>

\* post_to_connection raises another exception: it is printed.
BcPostError ==
    /\ bcPc = "post"
    /\ bcConns[bcJ] \notin gonePeers
    /\ bcLog' = Append(bcLog, Attempt("error"))
    /\ BcAdvance
    /\ UNCHANGED <<feedPos, bcBatch, bcConns, connVars, exceptBc>>

\* post_to_connection raises GoneException and the delete_item that follows
\* raises: nothing catches it inside the except branch, the handler ends with
\* the exception and the registry keeps the item.
BcDeleteFails ==
    /\ bcPc = "post"
    /\ bcConns[bcJ] \in gonePeers
    /\ bcLog' = Append(bcLog, Attempt("gone"))
    /\ bcPc' = "failed"
    /\ UNCHANGED <<bcI, bcJ, feedPos, bcBatch, bcConns, connVars, exceptBc>>

\* The event source invokes the handler again with the records of a failed
\* invocation.
BcRedeliver ==
    /\ bcPc = "failed"
    /\ bcLog' = << >>
    /\ \E order \in ScanOrders(DOMAIN registry) :
        /\ bcConns' = order
        /\ LET first == NextBroadcastRecord(bcBatch, 1) IN
           IF order = << >> \/ first > Len(bcBatch)
           THEN bcPc' = "done" /\ bcI' = 0 /\ bcJ' = 0
           ELSE bcPc' = "post" /\ bcI' = first /\ bcJ' = 1
    /\ UNCHANGED <<feedPos, bcBatch, connVars, exceptBc>>

BcFaultStep == BcDeleteFails \/ BcRedeliver

BcStep ==
    \/ \E n \in 1..MaxBatch : BcInvoke(n)
    \/ BcPostOk
    \/ BcPostGone
    \/ BcPostError

-----------------------------------------------------------------------------
(* Event router: BuildManagerBus, its archive, ProcessEventsRule and       *)
(* LogAllEventsRule                                                        *)

\* The events put on the bus.
MaxEvents == 2

\* scope.account; the bus has no resource policy, so every event it accepts
\* comes from the stack's account.
StackAccount == "stack-account"

Sources == {"curio.buildmanager", "curio.api", "other"}

DetailTypes == {"NoOp", "ArtifactAdded", "ArtifactRemoved", "CatalogInputFiles", "Other"}

\* An event as the bus holds it; the bus gives each event an id of its own.
BusEvent(id, source, detailType) ==
    [id |-> id, source |-> source, detailType |-> detailType, account |-> StackAccount]

\* An event pattern matches when every field it names holds one of the listed values.
Matches(pattern, e) == \A f \in DOMAIN pattern : e[f] \in pattern[f]

\* The archive with the pattern of ProcessEventsRule.
ArchivePattern_AllowList ==
    [source |-> {"curio.buildmanager"},
     detailType |-> {"NoOp", "ArtifactAdded", "ArtifactRemoved"}]

\* event_pattern of bus.archive("Archive", ...)
ArchivePattern == [account |-> {StackAccount}]

\* ProcessEventsRule matching on the source alone.
ProcessEventsPattern_SourceOnly == [source |-> {"curio.buildmanager"}]

\* event_pattern of ProcessEventsRule
ProcessEventsPattern ==
    [source |-> {"curio.buildmanager"},
     detailType |-> {"NoOp", "ArtifactAdded", "ArtifactRemoved"}]

\* event_pattern of LogAllEventsRule
LogAllEventsPattern == [source |-> {"curio.buildmanager"}]

RouterInit ==
    /\ accepted = << >>
    /\ archive = {}
    /\ logged = {}

\* The bus accepts an event: the archive and each rule take it when their
\* pattern matches; the target of ProcessEventsRule is the work queue.
PutEvent(source, detailType) ==
    /\ Len(accepted) < MaxEvents
    /\ LET e == BusEvent(Len(accepted) + 1, source, detailType) IN
        /\ accepted' = Append(accepted, e)
        /\ archive' = IF Matches(ArchivePattern, e) THEN archive \cup {e} ELSE archive
        /\ queue' = IF Matches(ProcessEventsPattern, e) THEN queue \cup {e} ELSE queue
        /\ logged' = IF Matches(LogAllEventsPattern, e) THEN logged \cup {e} ELSE logged
    /\ UNCHANGED exceptRouter

RouterStep == \E source \in Sources, detailType \in DetailTypes : PutEvent(source, detailType)

-----------------------------------------------------------------------------
(* Specifications                                                          *)

StatusInit ==
    /\ store = << >>
    /\ feed = << >>
    /\ clock = 0
    /\ queue = {}
    /\ failedCalls = {}
    /\ MonInit
    /\ ApiInit

BcastInit == ConnInit /\ BcInit

ScalerIdle ==
    /\ maxCapacity = DefaultMaxCapacity
    /\ desiredCapacity = 0
    /\ sample = NoSample
    /\ prevCapacity = 0
    /\ setOutcome = "ok"
    /\ upFired = FALSE
    /\ zeroFired = FALSE
    /\ evaluations = 0
    /\ backlog = NoSample

\* The autoscaler alone, for every configured max_capacity.
\* The autoscaler at rest, no status record, no connection.
Init == ScalerIdle /\ StatusInit /\ BcastInit /\ RouterInit

NextScaler == \E s \in Inputs : Evaluate(s)

InitScaler == ScalerInit /\ StatusInit /\ BcastInit /\ RouterInit

SpecScaler == InitScaler /\ [][NextScaler]_vars

\* The autoscaler with the set of the capacity failing at times.
NextScalerFaults ==
    \/ \E s \in Inputs : Evaluate(s)
    \/ \E s \in Inputs : EvaluateSetFails(s)

SpecScalerFaults == InitScaler /\ [][NextScalerFaults]_vars

\* The autoscaler running for ever against a queue whose depth changes, with
\* sets of the capacity that may fail. The alarms are evaluated every period
\* (evaluation_periods = 1 over a one-minute metric), and a set that is tried
\* again and again succeeds in the end: weak fairness of the evaluation whose
\* set succeeds says both.
Backlogs == {NoSample, <<0>>, <<500>>, <<1 * Milli>>, <<9 * Milli>>, <<300 * Milli>>}

NextScalerLive ==
    \/ \E s \in Backlogs : BacklogChanges(s)
    \/ EvaluateBacklog
    \/ EvaluateBacklogSetFails

SpecScalerLive == InitScaler /\ [][NextScalerLive]_vars /\ WF_vars(EvaluateBacklog)

\* The container monitor handling one notification at a time.
NextMonitor == MonStep(1)

SpecMonitor == Init /\ [][NextMonitor]_vars

\* The same with store calls that may raise.
NextMonitorFaults == MonStep(1) \/ MonFaultStep(1)

SpecMonitorFaults == Init /\ [][NextMonitorFaults]_vars

\* The API handler (callers that pass the group check) and the worker on the
\* status store, next to the container monitor handling the notifications of
\* one task.
NextCatalog ==
    \/ ApiAllowedStep
    \/ WorkerStep
    \/ MonStepOf(1, {ArnShort, NoArn}, Statuses, EcsGroups, {NoReason})

SpecCatalog == Init /\ [][NextCatalog]_vars

\* The same with submissions whose store or queue call may raise.
NextCatalogFaults == NextCatalog \/ ApiFaultStep

SpecCatalogFaults == Init /\ [][NextCatalogFaults]_vars

\* The /catalog requests of callers of every kind, next to the worker.
NextApi == ApiStep \/ WorkerStep

SpecApi == Init /\ [][NextApi]_vars

\* The same callers with GET /content among their requests.
NextContent == ApiStep \/ WorkerStep \/ ContentStep

SpecContent == Init /\ [][NextContent]_vars

\* A job from submission to its terminal state, the connections coming and
\* going, and the broadcaster on the stream of the status store.
JobStep ==
    \/ \E method \in {"POST", "DELETE"} : ApiSubmit(method, {"operator", "admin", "monitor"})
    \/ ApiPutQueued
    \/ ApiSendMessage

NextBroadcast == JobStep \/ WorkerStep \/ ConnStep \/ BcStep

SpecBroadcast == Init /\ [][NextBroadcast]_vars

\* The same with the registry's delete_item failing at times.
NextBroadcastFaults == NextBroadcast \/ BcFaultStep

SpecBroadcastFaults == Init /\ [][NextBroadcastFaults]_vars

\* The registry alone: connections coming, going and expiring.
NextRegistry == ConnStep

SpecRegistry == Init /\ [][NextRegistry]_vars

\* Two invocations of the container monitor overlapping each other and the
\* submission of a job.
NextConcurrent ==
    \/ \E p \in MonProcs : MonStepOf(p, TaskArns, {"RUNNING", "STOPPED"}, {"service:Service"}, {NoReason})
    \/ JobStep

SpecConcurrent == Init /\ [][NextConcurrent]_vars

\* Events arriving on the bus, next to a job submitted through the API.
NextRouter == RouterStep \/ JobStep

SpecRouter == Init /\ [][NextRouter]_vars

\* Every handler that has the status table in hand, together: submissions and
\* status queries of the API, the worker, the container monitor, and the
\* broadcaster delivering to one connection.
NextHandlers ==
    \/ ApiSubmit("POST", {"operator", "admin", "monitor"})
    \/ ApiPutQueued
    \/ ApiSendMessage
    \/ ApiGetCatalog({"operator", "admin", "monitor"})
    \/ ApiQueryActive
    \/ \E m \in queue : WorkerStart(m)
    \/ \E k \in DOMAIN store : WorkerFinish(k, "DONE")
    \/ MonStepOf(1, {ArnShort, NoArn}, {"PENDING", "STOPPED"}, {"service:Service"}, {NoReason})
    \/ OnConnect("c1")
    \/ BcInvoke(1)
    \/ BcPostOk

SpecHandlers == Init /\ [][NextHandlers]_vars

-----------------------------------------------------------------------------
(* Claims about the autoscaler, checked under SpecScaler                   *)

IsInt(s) == s # NoSample /\ Value(s) % Milli = 0

\* The target the documented intervals [1,10) [10,20) [20,50) [50,100)
\* [100,300) [300,inf) give to an integer backlog b >= 1.
DocumentedTarget(b) ==
    IF b < 10 THEN 1
    ELSE IF b < 20 THEN 2
    ELSE IF b < 50 THEN 5
    ELSE IF b < 100 THEN 10
    ELSE IF b < 300 THEN 50
    ELSE 200

\* C1 (as stated): with maxCapacity = 200, after an evaluation of an integer
\* backlog b >= 1 the fleet has the target of the documented interval holding b
\* (9 gives 1, 10 gives 2, 299 gives 50, 300 gives 200).
C1_DocumentedTargets ==
    (evaluations > 0 /\ maxCapacity = DefaultMaxCapacity /\ IsInt(sample)
        /\ Value(sample) >= 1 * Milli)
    => desiredCapacity = DocumentedTarget(Value(sample) \div Milli)

C3_CapacityInRange == desiredCapacity \in 0..maxCapacity

C3_Witness ==
    /\ maxCapacity = 20 /\ sample = <<300 * Milli>> /\ upFired
    /\ desiredCapacity = 20

\* C14: no evaluation, whatever its input (a backlog >= 0 or no sample), has
\* both paths fire: the capacity an evaluation sets comes from the scale-up
\* steps alone or from the scale-to-zero steps alone.
C14_PathsExclusive ==
    evaluations > 0 =>
        /\ ~(upFired /\ zeroFired)
        /\ upFired => desiredCapacity \in {Clamp(t) : t \in ScaleUpTargets(sample)}
        /\ zeroFired => desiredCapacity \in {Clamp(t) : t \in ScaleZeroTargets(sample)}

\* The scale-up path alone has fired on a fleet the scale-to-zero path had emptied.
C14_Witness ==
    evaluations > 1 /\ upFired /\ ~zeroFired /\ prevCapacity = 0 /\ desiredCapacity > 0

C22_FailedSetReissued ==
    evaluations > 0 =>
        /\ setOutcome = "failed" => desiredCapacity = prevCapacity
        /\ (setOutcome # "failed" /\ FiredTargets(sample) # {})
            => desiredCapacity \in {Clamp(t) : t \in FiredTargets(sample)}
        /\ (setOutcome # "failed" /\ FiredTargets(sample) = {})
            => desiredCapacity = prevCapacity

\* The set failed for a backlog of 1 or more on an empty fleet, and the next
\* evaluation of the same backlog has set its target.
C22_Witness ==
    /\ setOutcome = "okAfterFailed"
    /\ upFired /\ prevCapacity = 0 /\ desiredCapacity > 0

\* C25 (as stated): a firing of the scale-up path assigns a capacity that
\* depends on the backlog sample alone, not on the capacity before; a backlog
\* of 9, evaluated any number of times, leaves capacity at 1, and a backlog of
\* 5 after one of 300 leaves capacity at 1.
C25_ExactAssignment ==
    (evaluations > 0 /\ upFired) =>
        /\ desiredCapacity \in {Clamp(t) : t \in ScaleUpTargets(sample)}
        /\ Value(sample) = 9 * Milli => desiredCapacity = 1
        /\ Value(sample) = 5 * Milli => desiredCapacity = 1

\* C26: under periodic evaluation and a set of the capacity that succeeds in
\* the end, a backlog that becomes 1 or more and stays so brings desiredCapacity
\* to 1 or more, and a backlog that becomes 0 or unreported and stays so brings
\* it back to 0; each time the first evaluation of that backlog whose set
\* succeeds is enough.
BacklogPending == backlog # NoSample /\ Value(backlog) >= 1 * Milli

BacklogEmpty == backlog = NoSample \/ Value(backlog) = 0

SetSucceeded == setOutcome' # "failed" /\ sample' = backlog /\ backlog' = backlog

-----------------------------------------------------------------------------
(* Claims about the container monitor, checked under SpecMonitor           *)

\* The change events of the current record of taskId, in feed order.
EventsOf(taskId) == SelectSeq(feed, LAMBDA e : e.newImage.taskId = taskId)

ContainerTaskIds == {ContainerTaskId(arn) : arn \in TaskArns \ {NoArn}}

C16_AlwaysRecomputes ==
    \A p \in MonProcs :
        (monPc[p] = "idle" /\ monOutcome[p] \notin {"none", "ignored"})
        => /\ monOutcome[p] \in {"metricUnchanged", "metricWritten"}
           /\ monCount[p] = ActiveContainers

\* The messages documented for a container in the state st.
DocumentedMessages(st) ==
    {<<"Container ", st>>} \cup {<<"Container ", st, ": ", r[1]>> : r \in Reasons \ {NoReason}}

\* No current record of the task of slot p, or one with another state or
\* another message.
RecordMissingOrDiffers(p) ==
    \/ Key(monTaskId[p]) \notin DOMAIN store
    \/ store[Key(monTaskId[p])].state # monStatus[p]
    \/ store[Key(monTaskId[p])].message # monMsg[p]

FailedIn(p) == {c \in {"get", "put", "count", "last", "putMetric"} : <<monTs[p], c>> \in failedCalls}

MonFinished(p) == monPc[p] = "idle" /\ monOutcome[p] \notin {"none", "ignored"}

ItemAttributes == {"taskId", "timestamp", "updatedAt", "state", "jobType", "level", "message"}

\* C32: a store call that raises inside the monitor is not tried again and
\* changes nothing in the store, and the invocation goes on: after a failed
\* duplicate test the record is written, after a failed record write the count
\* is taken of the records stored, after a failed read of the previous metric
\* the metric is written; every item stored is whole.
C32_FailuresContained ==
    /\ [](\A p \in MonProcs : MonFinished(p) =>
            /\ ("get" \in FailedIn(p) /\ "put" \notin FailedIn(p)) =>
                  /\ Key(monTaskId[p]) \in DOMAIN store
                  /\ store[Key(monTaskId[p])] = ContainerItem(p)
            /\ ("put" \in FailedIn(p) /\ "count" \notin FailedIn(p)) =>
                  monCount[p] = ActiveContainers
            /\ ("last" \in FailedIn(p) /\ "putMetric" \notin FailedIn(p)) =>
                  /\ monOutcome[p] = "metricWritten"
                  /\ store[Key(MetricId)] = MetricItem(p))
    /\ [](\A k \in DOMAIN store : ItemAttributes \subseteq DOMAIN store[k])
    /\ [][\A f \in failedCalls' \ failedCalls :
            /\ store' = store /\ feed' = feed
            /\ \A p \in MonProcs :
                 (monTs[p] = f[1] /\ monPc[p] = f[2]) => monPc'[p] # monPc[p]]_vars

\* The record write of the first notification failed; in the second the
\* duplicate test and the read of the previous metric failed, and the record
\* and the metric are written.
C32_Witness ==
    /\ <<1, "put">> \in failedCalls
    /\ MonFinished(1) /\ monTs[1] = 2
    /\ FailedIn(1) = {"get", "last"}
    /\ store[Key(monTaskId[1])] = ContainerItem(1)
    /\ store[Key(MetricId)] = MetricItem(1)

\* The keys documented for the two taskArn values: 'container-' and the
\* trailing segment a1, whole; 'container-' and the last 12 characters of the
\* trailing segment z0123456789ab.
DocumentedTaskIds ==
    {<<"container-", "a", "1">>,
     <<"container-", "0", "1", "2", "3", "4", "5", "6", "7", "8", "9", "a", "b">>}

\* C37: the key of a container's record is 'container-' followed by the last
\* 12 characters of the taskArn's segment after its last '/', the whole
\* segment when it is shorter, and so the same for the same taskArn; a
\* notification with an empty taskArn or an empty group is never taken up, and
\* the invocation that ignores it reads and writes nothing.
C37_StableKeyAndGuards ==
    /\ [](/\ ContainerTaskId(ArnShort) = <<"container-", "a", "1">>
          /\ ContainerTaskId(ArnLong) \in DocumentedTaskIds \ {ContainerTaskId(ArnShort)}
          /\ \A p \in MonProcs : monPc[p] # "idle" => monTaskId[p] \in DocumentedTaskIds
          /\ \A k \in DOMAIN store : k[1] \in DocumentedTaskIds \cup {MetricId})
    /\ [][\A p \in MonProcs :
            /\ \A arn \in TaskArns, st \in Statuses, g \in EcsGroups, r \in Reasons :
                 (arn = NoArn \/ g = "") => ~MonReceive(p, arn, st, g, r)
            /\ (monPc[p] = "idle" /\ monPc'[p] = "idle" /\ monOutcome'[p] # monOutcome[p]) =>
                 /\ monOutcome'[p] = "ignored"
                 /\ UNCHANGED <<store, feed, clock, monTaskId, monStatus, monMsg, notifications>>]_vars

\* Two notifications of the task with the long taskArn have gone to one
\* record, and a notification without taskArn or group was ignored after them.
C37_Witness ==
    /\ notifications = 2
    /\ monPc[1] = "idle" /\ monOutcome[1] = "ignored"
    /\ Len(EventsOf(ContainerTaskId(ArnLong))) = 2
    /\ DOMAIN store = {Key(ContainerTaskId(ArnLong)), Key(MetricId)}

-----------------------------------------------------------------------------
(* Claims about the status store under overlapping writers, SpecConcurrent *)

\* The keys of the table's items of one task.
RecordsOf(taskId) == {k \in DOMAIN store : k[1] = taskId}

\* C11: whatever the interleaving of job submissions and
\* container-monitor invocations, every item of the status table has the sort
\* key "STATUS" and is stored under its own taskId, so each taskId has at most
\* one item; and a write for a taskId that has an item adds none.
C11_OneRecordPerTask ==
    /\ [](\A k \in DOMAIN store :
            /\ k[2] = "STATUS"
            /\ store[k].taskId = k[1] /\ store[k].timestamp = k[2]
            /\ Cardinality(RecordsOf(k[1])) = 1)
    /\ [][\A k \in DOMAIN store :
            /\ k \in DOMAIN store'
            /\ RecordsOf(k[1])' = RecordsOf(k[1])]_vars

\* Two overlapping monitor invocations have both written the record of the
\* same task, next to the record of a submitted job.
C11_Witness ==
    /\ \A p \in MonProcs : monPc[p] \in {"count", "last", "putMetric"}
    /\ monTaskId[1] = monTaskId[2]
    /\ Len(EventsOf(monTaskId[1])) >= 2
    /\ \E k \in DOMAIN store : store[k].jobType \in JobTypes

\* The records an invocation in progress has written or is about to write.
InvocationWrites(p) ==
    CASE monPc[p] \in {"put", "count", "last"} -> {Key(monTaskId[p])}
      [] monPc[p] = "putMetric" -> {Key(monTaskId[p]), Key(MetricId)}
      [] OTHER -> {}

\* C23 (as stated): two monitor invocations in progress at the same time for
\* two different container tasks have disjoint write sets.
C23_DisjointWriteSets ==
    \A p, q \in MonProcs :
        (p # q /\ monPc[p] # "idle" /\ monPc[q] # "idle" /\ monTaskId[p] # monTaskId[q])
        => InvocationWrites(p) \cap InvocationWrites(q) = {}

\* The change events of taskId's record that carry the state st and the
\* message msg.
EventsWith(taskId, st, msg) ==
    SelectSeq(EventsOf(taskId), LAMBDA e : e.newImage.state = st /\ e.newImage.message = msg)

\* C27 (as stated): two monitor invocations for the same task with the same
\* (state, message), their reads and writes interleaved in any way, put at
\* most one change event of that task's record on the feed.
C27_OneWriteOfTwo ==
    \A p, q \in MonProcs :
        (/\ p # q /\ notifications = 2
         /\ monPc[p] = "idle" /\ monPc[q] = "idle"
         /\ monOutcome[p] \notin {"none", "ignored"} /\ monOutcome[q] \notin {"none", "ignored"}
         /\ monTaskId[p] = monTaskId[q] /\ monStatus[p] = monStatus[q] /\ monMsg[p] = monMsg[q])
        => Len(EventsWith(monTaskId[p], monStatus[p], monMsg[p])) <= 1

\* C28 (as stated): whenever no monitor invocation is in progress and one has
\* got past the duplicate test or ended on it, the metric record exists and
\* its count is the number of RUNNING CONTAINER records, whatever the
\* interleaving of the invocations before.
C28_MetricMatchesCount ==
    (/\ \A p \in MonProcs : monPc[p] = "idle"
     /\ \E p \in MonProcs : monOutcome[p] \notin {"none", "ignored"})
    => /\ Key(MetricId) \in DOMAIN store
       /\ store[Key(MetricId)].processed = ActiveContainers

-----------------------------------------------------------------------------
(* Claims about the event router, checked under SpecRouter                 *)

\* The allow-list as documented.
InAllowList(e) ==
    /\ e.source = "curio.buildmanager"
    /\ e.detailType \in {"NoOp", "ArtifactAdded", "ArtifactRemoved"}

\* The messages of the work queue that are events of the bus.
RoutedMessages == {m \in queue : "id" \in DOMAIN m}

\* C12: an event the bus accepted is on the work queue exactly when its
\* (source, detailType) pair is in the allow-list, and the work queue holds no
\* event of the bus outside the allow-list.
C12_QueueIffAllowListed ==
    /\ \A i \in 1..Len(accepted) : accepted[i] \in queue <=> InAllowList(accepted[i])
    /\ \A m \in RoutedMessages : InAllowList(m) /\ \E i \in 1..Len(accepted) : accepted[i] = m

\* One event forwarded, one of the right source and another detailType not
\* forwarded, next to a job message the API put on the queue itself.
C12_Witness ==
    /\ \E i \in 1..Len(accepted) : accepted[i] \in queue
    /\ \E i \in 1..Len(accepted) :
          accepted[i] \notin queue /\ accepted[i].source = "curio.buildmanager"
    /\ queue \ RoutedMessages # {}

\* C13: every event the bus accepted is in the archive, forwarded to the work
\* queue or not.
C13_EveryEventArchived ==
    \A i \in 1..Len(accepted) : accepted[i] \in archive

C13_Witness ==
    /\ \E i \in 1..Len(accepted) : accepted[i] \in queue /\ accepted[i] \in archive
    /\ \E i \in 1..Len(accepted) : ~InAllowList(accepted[i]) /\ accepted[i] \in archive

\* C30 (as stated): every message on the work queue, the job message of a
\* CATALOG or PURGE submission included, went through the bus: it is in the
\* archive and its (source, detailType) is in the allow-list.
C30_QueueOnlyThroughRouter ==
    \A m \in queue : m \in archive /\ InAllowList(m)

-----------------------------------------------------------------------------
(* Claims about the broadcaster, checked under SpecBroadcast               *)

\* The attempts of the invocation for record i and connection c.
AttemptsOf(i, c) == {k \in 1..Len(bcLog) : bcLog[k].record = i /\ bcLog[k].conn = c}

\* The connections an attempt of the invocation got Gone for.
GoneConns == {bcLog[k].conn : k \in {m \in 1..Len(bcLog) : bcLog[m].result = "gone"}}

\* The connection a broadcaster step removes: the one its attempt got Gone for.
RemovedByStep ==
    IF Len(bcLog') = Len(bcLog) + 1 /\ bcLog'[Len(bcLog')].result = "gone"
    THEN {bcLog'[Len(bcLog')].conn}
    ELSE {}

BcStepTaken == bcLog' # bcLog \/ bcPc' # bcPc \/ feedPos' # feedPos

\* C6: when an invocation of the broadcaster has completed, every connection
\* an attempt of it got Gone for is absent from the registry; and no step of
\* the broadcaster removes or changes the registry item of any connection
\* other than the one its own attempt just got Gone for.
C6_GoneRemovedOthersUntouched ==
    /\ [](bcPc = "done" => GoneConns \cap DOMAIN registry = {})
    /\ [][BcStepTaken =>
            \A c \in DOMAIN registry \ RemovedByStep :
                c \in DOMAIN registry' /\ registry'[c] = registry[c]]_vars

C6_Witness ==
    /\ bcPc = "done"
    /\ GoneConns # {}
    /\ \E c \in DOMAIN registry : \A k \in 1..Len(bcLog) : bcLog[k].conn # c

\* The connections registered from the scan of the invocation until now and
\* reachable all that time (connection ids are never issued twice, and a peer
\* that went away stays away).
StableConns ==
    {c \in DOMAIN registry \ gonePeers : \E j \in 1..Len(bcConns) : bcConns[j] = c}

C17_AtMostOneAttempt ==
    /\ \A i \in 1..Len(bcBatch) : \A c \in Conns : Cardinality(AttemptsOf(i, c)) <= 1
    /\ \A k \in 1..Len(bcLog) :
        /\ bcLog[k].record \in 1..Len(bcBatch)
        /\ \E j \in 1..Len(bcConns) : bcConns[j] = bcLog[k].conn
    /\ Len(bcLog) <= Len(bcBatch) * Len(bcConns)

\* A completed invocation for two records and two connections, one of which
\* failed with another error and one of which was gone.
C17_Witness ==
    /\ bcPc = "done"
    /\ Len(bcBatch) = 2 /\ Len(bcConns) = 2
    /\ Len(bcLog) = 4
    /\ \E k \in 1..Len(bcLog) : bcLog[k].result = "error"
    /\ \E k \in 1..Len(bcLog) : bcLog[k].result = "gone"

\* C18 (as stated): when an invocation has ended, by returning or by an
\* exception, every INSERT or MODIFY record of its batch has a delivery attempt
\* for every connection id of its scan, whatever the outcome of the attempts
\* for the other connections, a failing delete_item after Gone included.
C18_EveryListedConnectionAttempted ==
    bcPc \in {"done", "failed"} =>
        \A i \in 1..Len(bcBatch) : \A j \in 1..Len(bcConns) :
            IsBroadcast(bcBatch[i]) => AttemptsOf(i, bcConns[j]) # {}

\* C19: a delivery attempt that fails with an error other than Gone leaves the
\* registry as it is, and an attempt that changes the registry is one that got
\* Gone and removes the item of its own connection, nothing else.
C19_OnlyGoneRemoves ==
    [][Len(bcLog') = Len(bcLog) + 1 =>
        /\ bcLog'[Len(bcLog')].result = "error" => registry' = registry
        /\ registry' # registry =>
            /\ bcLog'[Len(bcLog')].result = "gone"
            /\ registry' = DeleteConnection(bcLog'[Len(bcLog')].conn)]_vars

\* One connection's send failed with another error and its item is kept;
\* another connection was gone and its item is removed.
C19_Witness ==
    /\ \E k \in 1..Len(bcLog) : bcLog[k].result = "error" /\ bcLog[k].conn \in DOMAIN registry
    /\ \E k \in 1..Len(bcLog) : bcLog[k].result = "gone" /\ bcLog[k].conn \notin DOMAIN registry

\* The attempts the invocation in flight at the last handler call has made
\* for that call's connection since the call returned.
AttemptsSinceCall ==
    {k \in 1..Len(bcLog) : k > connResp.attempts /\ bcLog[k].conn = connResp.conn}

\* C24 (as stated): after onDisconnect(c) returned while an invocation that
\* had scanned the registry was in flight, that invocation makes at most one
\* more delivery attempt for c, whatever the number of records of its batch.
C24_OneAttemptAfterDisconnect ==
    (connResp.op = "disconnect" /\ connResp.batchEnd > 0 /\ connResp.batchEnd = feedPos)
    => Cardinality(AttemptsSinceCall) <= 1

\* C29 (as stated): a connection that an attempt of the invocation got Gone
\* for, and so removed from the registry, gets no attempt for the later change
\* events of the same batch.
C29_NoAttemptAfterRemoval ==
    \A k, m \in 1..Len(bcLog) :
        (k < m /\ bcLog[k].result = "gone" /\ bcLog[k].conn = bcLog[m].conn)
        => bcLog[m].record <= bcLog[k].record

-----------------------------------------------------------------------------
(* Claims about the connection registry, checked under SpecRegistry        *)

C21_OnlyConnectInserts ==
    /\ [](DOMAIN registry \subseteq everConnected)
    /\ [][\A c \in DOMAIN registry' :
            IF c \in DOMAIN registry
            THEN registry'[c] = registry[c]
            ELSE /\ connResp'.call # connResp.call
                 /\ connResp'.op = "connect" /\ connResp'.conn = c
                 /\ c \notin everConnected
                 /\ registry'[c] = now + (2 * 60 * 60)]_vars
    /\ [][(connResp'.call # connResp.call /\ connResp'.op = "disconnect")
            => connResp'.conn \notin DOMAIN registry']_vars
    /\ [][(Len(bcLog') = Len(bcLog) + 1 /\ bcLog'[Len(bcLog')].result = "gone" /\ bcPc' # "failed")
            => bcLog'[Len(bcLog')].conn \notin DOMAIN registry']_vars

\* A connection was disconnected after the scan of an invocation that is
\* about to send to it, next to a connection registered at a later time.
C21_Witness ==
    /\ bcPc = "post"
    /\ connResp.op = "disconnect" /\ connResp.conn = bcConns[bcJ]
    /\ bcConns[bcJ] \notin DOMAIN registry
    /\ \E c \in DOMAIN registry : registry[c] = TickSeconds + TtlSeconds

-----------------------------------------------------------------------------
(* Claims about the /catalog API, checked under SpecCatalog                *)

\* The keys of the status table whose item a step adds or changes.
WrittenKeys == {k \in DOMAIN store' : k \notin DOMAIN store \/ store'[k] # store[k]}

TerminalStates == {"DONE", "FAILED"}

\* C36: no step removes an item of the status table; a step of the container
\* monitor writes only keys that start with 'container-' and the key
\* 'system-active-containers'; a step of a submission writes only the new item
\* of its own 'catalog-' or 'purge-' taskId; the status query and the
\* broadcaster write nothing; so the only steps that change a job's record
\* are the worker's, and none changes a job's record in a terminal state.
C36_JobRecordsLeftAlone ==
    [][/\ DOMAIN store \subseteq DOMAIN store'
       /\ \A k \in WrittenKeys :
            \/ /\ monPc' # monPc
               /\ k[1][1] = "container-" \/ k[1] = <<"system-active-containers">>
            \/ /\ apiPc = "put" /\ apiPc' # apiPc
               /\ k \notin DOMAIN store
               /\ k[1] = apiTaskId /\ k[1][1] \in {"catalog-", "purge-"}
            \/ /\ monPc' = monPc /\ apiPc' = apiPc /\ ~BcStepTaken
               /\ k \in DOMAIN store
               /\ store[k].jobType \in JobTypes
               /\ store[k].state \notin TerminalStates]_vars

\* A job's record in a terminal state next to a container's record and the
\* metric record, all three announced to a connection.
C36_Witness ==
    /\ \E k \in DOMAIN store : store[k].jobType \in JobTypes /\ store[k].state \in TerminalStates
    /\ \E k \in DOMAIN store : store[k].jobType = "CONTAINER"
    /\ Key(MetricId) \in DOMAIN store
    /\ bcPc = "done" /\ bcLog # << >> /\ feedPos = Len(feed) /\ feedPos >= 5

\* C35 (as stated): an answer of GET /content that carries the content of an
\* item went to a caller of the monitor group.
C35_ContentOnlyToMonitor ==
    contentResp.content # NoContent => "monitor" \in contentResp.groups

C33_FailedSubmitLeavesNothing ==
    (apiPc = "idle" /\ apiResp.statusCode = 500) =>
        /\ Key(apiTaskId) \notin DOMAIN store
        /\ \A m \in queue : m.task_id # apiTaskId

\* The submitted jobs whose current record has state RUNNING.
RunningJobs ==
    {k \in DOMAIN store : store[k].jobType \in JobTypes /\ store[k].state = "RUNNING"}

\* The response on hand is the answer of an active-job query to the store as it is.
QueryAnswered ==
    /\ apiPc = "idle"
    /\ apiResp.status \in {"RUNNING", "IDLE"}
    /\ apiQueriedAt = Len(feed)

\* C8 (as stated): whenever a submitted job's current record is RUNNING,
\* queryActiveJob returns that task as the active job.
C8_RunningJobReturned ==
    QueryAnswered =>
        \A k \in RunningJobs : apiResp.status = "RUNNING" /\ apiResp.taskId = k[1]

C10_RecordBeforeMessage ==
    /\ \A m \in queue :
           /\ Key(m.task_id) \in DOMAIN store
           /\ store[Key(m.task_id)].jobType = m.job_type
    /\ apiPc = "send" =>
           /\ Key(apiTaskId) \in DOMAIN store
           /\ store[Key(apiTaskId)].state = "QUEUED"
           /\ store[Key(apiTaskId)].jobType = apiJobType
           /\ \A m \in queue : m.task_id # apiTaskId

C10_Witness ==
    \E m \in queue :
        /\ m.job_type = "PURGE"
        /\ store[Key(m.task_id)].state = "QUEUED"
        /\ apiResp = Response(200, "started", m.task_id)

=============================================================================
